---- MODULE Spec2Model ----
(***************************************************************************)
(* Model of backend/app/core/document_processor.py: the diff-to-suggestion *)
(* mapping (T5Model._generate_suggestions over difflib.SequenceMatcher),   *)
(* the two improvement backends (OllamaModel, T5Model), the fallback       *)
(* orchestrator (AIDocumentModel) and the text extractor (extract_text).   *)
(*                                                                         *)
(* A text is a sequence of one-character strings.  Python offsets are      *)
(* 0-based and half-open; s[i:j] is SubSeq(s, i+1, j).                     *)
(***************************************************************************)
EXTENDS Integers, Sequences, FiniteSets, TLC

\* ------------------------------------------------------------------ bounds
\* Longest original / improved text of the enumerated diff inputs.
MaxLen == 4
\* Longest request text and longest model output of the orchestrator runs.
MaxTextLen == 2
\* Most pages, paragraphs, archive entries or table cells of an extracted file.
MaxParts == 2
\* Longest page, paragraph, entry or cell.
MaxPartLen == 1
\* Longest plain-text file, in bytes.
MaxBytes == 3
\* Most upload and save requests of a run of the store.
MaxRequests == 3

\* ------------------------------------------------------------------- texts
Letters == {"a", "b"}
Whitespace == {" ", "\n", "\t"}
Alphabet == Letters \cup {" "}

\* The sequences over `alphabet` of length n or less
RECURSIVE SeqsUpTo(_, _)
SeqsUpTo(alphabet, n) ==
    IF n = 0 THEN {<<>>}
    ELSE LET shorter == SeqsUpTo(alphabet, n - 1)
         IN  shorter \cup {Append(s, c) : s \in {t \in shorter : Len(t) = n - 1}, c \in alphabet}

StringsUpTo(n) == SeqsUpTo(Alphabet, n)

\* s[i:j] of Python, 0 <= i <= j <= len(s)
Slice(s, i, j) == SubSeq(s, i + 1, j)

\* str.strip(): drop leading and trailing whitespace
RECURSIVE lstrip(_)
lstrip(s) == IF s # <<>> /\ Head(s) \in Whitespace THEN lstrip(Tail(s)) ELSE s

RECURSIVE rstrip(_)
rstrip(s) ==
    IF s # <<>> /\ s[Len(s)] \in Whitespace THEN rstrip(SubSeq(s, 1, Len(s) - 1)) ELSE s

strip(s) == rstrip(lstrip(s))

\* truth value of a Python str or list: non-empty
Truthy(s) == Len(s) > 0

\* ---------------------------------------------------------------- difflib
\* Length of the common run of a[i..] and b[j..] (0-based), inside [.., ahi) x [.., bhi)
RECURSIVE RunLen(_, _, _, _, _, _)
RunLen(a, b, i, j, ahi, bhi) ==
    IF i < ahi /\ j < bhi /\ a[i + 1] = b[j + 1]
    THEN 1 + RunLen(a, b, i + 1, j + 1, ahi, bhi)
    ELSE 0

Max(S) == CHOOSE x \in S : \A y \in S : y <= x
Min(S) == CHOOSE x \in S : \A y \in S : x <= y

\* SequenceMatcher.find_longest_match without junk: the longest block
\* a[i:i+k] = b[j:j+k] in a[alo:ahi], b[blo:bhi]; of the longest, the one
\* starting earliest in a; of those, the one starting earliest in b;
\* <<alo, blo, 0>> when nothing matches.
find_longest_match(a, b, alo, ahi, blo, bhi) ==
    LET cand == {<<i, j>> \in (alo .. ahi - 1) \X (blo .. bhi - 1) : a[i + 1] = b[j + 1]}
    IN  IF cand = {} THEN <<alo, blo, 0>>
        ELSE LET k     == Max({RunLen(a, b, p[1], p[2], ahi, bhi) : p \in cand})
                 best  == {p \in cand : RunLen(a, b, p[1], p[2], ahi, bhi) = k}
                 besti == Min({p[1] : p \in best})
                 bestj == Min({p[2] : p \in {q \in best : q[1] = besti}})
             IN  <<besti, bestj, k>>

\* The recursion of get_matching_blocks: the match, then the pieces to its
\* left and to its right, in increasing order of position.
RECURSIVE matching_blocks_in(_, _, _, _, _, _)
matching_blocks_in(a, b, alo, ahi, blo, bhi) ==
    LET x == find_longest_match(a, b, alo, ahi, blo, bhi)
        i == x[1]
        j == x[2]
        k == x[3]
    IN  IF k = 0 THEN <<>>
        ELSE (IF alo < i /\ blo < j
              THEN matching_blocks_in(a, b, alo, i, blo, j) ELSE <<>>)
             \o <<x>>
             \o (IF i + k < ahi /\ j + k < bhi
                 THEN matching_blocks_in(a, b, i + k, ahi, j + k, bhi) ELSE <<>>)

\* Adjacent blocks are merged into one.
RECURSIVE coalesce(_)
coalesce(blocks) ==
    IF Len(blocks) < 2 THEN blocks
    ELSE LET x == blocks[1]
             y == blocks[2]
         IN  IF x[1] + x[3] = y[1] /\ x[2] + x[3] = y[2]
             THEN coalesce(<<<<x[1], x[2], x[3] + y[3]>>>> \o SubSeq(blocks, 3, Len(blocks)))
             ELSE <<x>> \o coalesce(Tail(blocks))

\* SequenceMatcher.get_matching_blocks: merged blocks and the end sentinel
get_matching_blocks(a, b) ==
    Append(coalesce(matching_blocks_in(a, b, 0, Len(a), 0, Len(b))), <<Len(a), Len(b), 0>>)

\* SequenceMatcher.get_opcodes: <<tag, i1, i2, j1, j2>> per block
RECURSIVE opcodes_from(_, _, _)
opcodes_from(blocks, i, j) ==
    IF blocks = <<>> THEN <<>>
    ELSE LET ai   == blocks[1][1]
             bj   == blocks[1][2]
             size == blocks[1][3]
             tag  == IF i < ai /\ j < bj THEN "replace"
                     ELSE IF i < ai THEN "delete"
                     ELSE IF j < bj THEN "insert"
                     ELSE ""
         IN  (IF tag # "" THEN <<<<tag, i, ai, j, bj>>>> ELSE <<>>)
             \o (IF size > 0 THEN <<<<"equal", ai, ai + size, bj, bj + size>>>> ELSE <<>>)
             \o opcodes_from(Tail(blocks), ai + size, bj + size)

get_opcodes(a, b) == opcodes_from(get_matching_blocks(a, b), 0, 0)

\* ------------------------------------------------------------- suggestions
\* Mutant: the length comparison of a replace is dropped.
get_suggestion_reason_LengthBlind(original, improved, tag) ==
    IF tag = "replace" THEN "Improved clarity or style"
    ELSE IF tag = "delete" THEN "Removed redundant or unnecessary text"
    ELSE IF tag = "insert" THEN "Added text for clarity or completeness"
    ELSE "General improvement"

\* T5Model._get_suggestion_reason
get_suggestion_reason(original, improved, tag) ==
    IF tag = "replace"
    THEN IF Len(original) = Len(improved)
         THEN "Corrected potential typo or improved word choice"
         ELSE "Improved clarity or style"
    ELSE IF tag = "delete" THEN "Removed redundant or unnecessary text"
    ELSE IF tag = "insert" THEN "Added text for clarity or completeness"
    ELSE "General improvement"

\* dataclass Suggestion
Suggestion(id, start, end, original_text, improved_text, reason, status) ==
    [id |-> id, start |-> start, end |-> end, original_text |-> original_text,
     improved_text |-> improved_text, reason |-> reason, status |-> status]

\* Mutant: suggestion_id += 1 sits outside the blank test, so a skipped
\* opcode uses up an id.
RECURSIVE suggestions_loop_IdPerOpcode(_, _, _, _)
suggestions_loop_IdPerOpcode(ops, original_text, improved_text, suggestion_id) ==
    IF ops = <<>> THEN <<>>
    ELSE LET op  == ops[1]
             tag == op[1]
             original_segment == Slice(original_text, op[2], op[3])
             improved_segment == IF tag # "delete" THEN Slice(improved_text, op[4], op[5]) ELSE <<>>
             reason == get_suggestion_reason(original_segment, improved_segment, tag)
             emitted == IF Truthy(strip(original_segment)) \/ Truthy(strip(improved_segment))
                        THEN <<Suggestion(suggestion_id, op[2], op[3], original_segment,
                                          improved_segment, reason, "pending")>>
                        ELSE <<>>
         IN  IF tag \in {"replace", "delete", "insert"}
             THEN emitted \o suggestions_loop_IdPerOpcode(Tail(ops), original_text,
                                                          improved_text, suggestion_id + 1)
             ELSE suggestions_loop_IdPerOpcode(Tail(ops), original_text, improved_text,
                                               suggestion_id)

\* Mutant: a suggestion is emitted only when both segments are non-blank.
RECURSIVE suggestions_loop_BothNonBlank(_, _, _, _)
suggestions_loop_BothNonBlank(ops, original_text, improved_text, suggestion_id) ==
    IF ops = <<>> THEN <<>>
    ELSE LET op  == ops[1]
             tag == op[1]
             original_segment == Slice(original_text, op[2], op[3])
             improved_segment == IF tag # "delete" THEN Slice(improved_text, op[4], op[5]) ELSE <<>>
             reason == get_suggestion_reason(original_segment, improved_segment, tag)
         IN  IF tag \in {"replace", "delete", "insert"}
                /\ (Truthy(strip(original_segment)) /\ Truthy(strip(improved_segment)))
             THEN <<Suggestion(suggestion_id, op[2], op[3], original_segment, improved_segment,
                               reason, "pending")>>
                  \o suggestions_loop_BothNonBlank(Tail(ops), original_text, improved_text,
                                                   suggestion_id + 1)
             ELSE suggestions_loop_BothNonBlank(Tail(ops), original_text, improved_text,
                                                suggestion_id)

\* The loop of T5Model._generate_suggestions over the opcodes.
RECURSIVE suggestions_loop(_, _, _, _)
suggestions_loop(ops, original_text, improved_text, suggestion_id) ==
    IF ops = <<>> THEN <<>>
    ELSE LET op  == ops[1]
             tag == op[1]
             i1  == op[2]
             i2  == op[3]
             j1  == op[4]
             j2  == op[5]
             original_segment == Slice(original_text, i1, i2)
             improved_segment == IF tag # "delete" THEN Slice(improved_text, j1, j2) ELSE <<>>
             reason == get_suggestion_reason(original_segment, improved_segment, tag)
         IN  IF tag \in {"replace", "delete", "insert"}
                /\ (Truthy(strip(original_segment)) \/ Truthy(strip(improved_segment)))
             THEN <<Suggestion(suggestion_id, i1, i2, original_segment, improved_segment,
                               reason, "pending")>>
                  \o suggestions_loop(Tail(ops), original_text, improved_text, suggestion_id + 1)
             ELSE suggestions_loop(Tail(ops), original_text, improved_text, suggestion_id)

\* T5Model._generate_suggestions
generate_suggestions(original_text, improved_text) ==
    suggestions_loop(get_opcodes(original_text, improved_text), original_text, improved_text, 1)

\* ---------------------------------------------------------------- backends
\* dataclass TextImprovementResult
TextImprovementResult(improved_text, sugg) ==
    [improved_text |-> improved_text, suggestions |-> sugg]

\* What a backend's improve_text ends with: a value or a raised error.
Returned(value) == [ok |-> TRUE, value |-> value]
Raised(cls, cause) == [ok |-> FALSE, cls |-> cls, cause |-> cause]

\* Mutant: the guard tests the text itself, not text.strip().
EmptyTextGuard_NoStrip(text) == ~Truthy(text)

\* The guard both backends open with: `if not text.strip()`
EmptyTextGuard(text) == ~Truthy(strip(text))

\* What improve_text returns when the guard holds.
EmptyTextResult(text) == TextImprovementResult(text, <<>>)

\* Outputs a model may produce for a request.
ModelOutputs == StringsUpTo(MaxTextLen)

\* A suggestion object as a chat model may put in its reply.
ChatSuggestion ==
    Suggestion(1, 0, 1, <<"a">>, <<"b">>, "Corrected potential typo or improved word choice",
               "pending")

\* Replies of ollama.chat, by what json.loads and dict.get make of them:
\*   chat_error     ollama.chat raises, or the response has no message content
\*   not_json       json.loads raises
\*   non_object     valid JSON that is not an object (no .get)
\*   object         a JSON object, with the fields it has
OllamaReplies ==
    {[kind |-> k, fields |-> {}, improved_text |-> <<>>, suggestions |-> <<>>] :
        k \in {"chat_error", "not_json", "non_object"}}
    \cup {[kind |-> "object", fields |-> f,
           improved_text |-> IF "improved_text" \in f THEN t ELSE <<>>,
           suggestions |-> IF "suggestions" \in f THEN <<ChatSuggestion>> ELSE <<>>] :
            f \in SUBSET {"improved_text", "suggestions"}, t \in ModelOutputs}

\* dict.get(key, default) on the parsed reply
Get(reply, key, default) == IF key \in reply.fields THEN reply[key] ELSE default

\* Mutant: result['improved_text'] instead of result.get('improved_text', text).
OllamaModel_improve_text_Strict(text, want, reply) ==
    IF reply.kind = "object" /\ "improved_text" \in reply.fields
    THEN Returned(TextImprovementResult(
             reply.improved_text,
             IF want THEN Get(reply, "suggestions", <<>>) ELSE <<>>))
    ELSE Raised("AIModelError", reply.kind)

\* OllamaModel.improve_text past the guard, given the chat reply
OllamaModel_improve_text(text, want, reply) ==
    IF reply.kind = "object"
    THEN Returned(TextImprovementResult(
             Get(reply, "improved_text", text),
             IF want THEN Get(reply, "suggestions", <<>>) ELSE <<>>))
    ELSE Raised("AIModelError", reply.kind)

\* Outcomes of tokenizer + model.generate + decode: an error or the decoded text
T5Replies ==
    {[kind |-> "generate_error", improved_text |-> <<>>]}
    \cup {[kind |-> "decoded", improved_text |-> t] : t \in ModelOutputs}

\* Lines 112-114 of T5Model.improve_text: the local list `suggestions`
\* replaces the parameter of the same name before it is tested.
T5Suggestions(text, improved_text, want) ==
    LET local == <<>>
    IN  IF Truthy(local) THEN generate_suggestions(text, improved_text) ELSE local

\* T5Model.improve_text past the guard, given the model's outcome
T5Model_improve_text(text, want, reply) ==
    IF reply.kind = "decoded"
    THEN Returned(TextImprovementResult(reply.improved_text,
                                        T5Suggestions(text, reply.improved_text, want)))
    ELSE Raised("AIModelError", reply.kind)

\* ------------------------------------------------------------ orchestrator
PrimaryName == "llama3.1:latest"
SecondaryName == "llama2:latest"
T5Name == "t5-small"
Names == {PrimaryName, SecondaryName, T5Name}

Kind(desc) == desc[1]
Name(desc) == desc[2]

\* AIDocumentModel.__init__ given which backends initialize (av[name]):
\* the descriptor list, or the error it raises.
AIDocumentModel_init(av) ==
    LET ollama == (IF av[PrimaryName] THEN <<<<"ollama", PrimaryName>>>> ELSE <<>>)
                  \o (IF av[SecondaryName] THEN <<<<"ollama", SecondaryName>>>> ELSE <<>>)
    IN  IF ~av[T5Name]
        THEN [ok |-> FALSE, models |-> <<>>,
              error |-> "No models available: T5 initialization failed"]
        ELSE LET all == Append(ollama, <<"t5", T5Name>>)
             IN  IF ~Truthy(all)
                 THEN [ok |-> FALSE, models |-> <<>>,
                       error |-> "No AI models could be initialized"]
                 ELSE [ok |-> TRUE, models |-> all, error |-> ""]

\* The dict AIDocumentModel.improve_text returns for a backend's result
ResultDict(r) == [improved_text |-> r.improved_text, suggestions |-> r.suggestions]

\* The two except clauses of the loop: AIModelError, then any Exception.
Caught(e) == e.cls = "AIModelError" \/ e.cls = "Exception"

NoResult == [improved_text |-> <<>>, suggestions |-> <<>>]
NoReply == [kind |-> "none"]

VARIABLES
    avail,          \* which backends initialize (ollama.show / from_pretrained)
    ctor,           \* "new", "ok", "failed": AIDocumentModel()
    models,         \* self.models
    isStr,          \* isinstance(text, str)
    text,           \* the request text
    want,           \* the suggestions flag of the request
    pc,             \* position of improve_text
    idx,            \* position of the loop in self.models (from 1)
    calls,          \* improve_text invocations per backend
    modelCalls,     \* ollama.chat / model.generate invocations per backend
    outcome,        \* per backend: "none", "raised", "returned"
    replies,        \* per backend: what its model replied ("none" before it does)
    backendResult,  \* the TextImprovementResult of the backend that returned
    result,         \* the dict improve_text returned
    error,          \* the message of the error improve_text raised
    active_model,   \* model_info["active_model"]
    hung            \* the awaited model call never completes

orchVars == <<avail, ctor, models, isStr, text, want, pc, idx, calls, modelCalls,
              outcome, replies, backendResult, result, error, active_model, hung>>

OrchInit ==
    /\ avail = [n \in Names |-> FALSE]
    /\ ctor = "new"
    /\ models = <<>>
    /\ isStr = TRUE
    /\ text = <<>>
    /\ want = FALSE
    /\ pc = "idle"
    /\ idx = 0
    /\ calls = [n \in Names |-> 0]
    /\ modelCalls = [n \in Names |-> 0]
    /\ outcome = [n \in Names |-> "none"]
    /\ replies = [n \in Names |-> NoReply]
    /\ backendResult = NoResult
    /\ result = NoResult
    /\ error = ""
    /\ active_model = <<>>   \* model_info has no "active_model" key yet
    /\ hung = FALSE

\* --------------------------------------------------------------- extractor
\* A content type is <<type, subtype>>; "type/" is a prefix of it exactly
\* when its first part is `type`.
PDF == <<"application", "pdf">>
DOCX == <<"application", "vnd.openxmlformats-officedocument.wordprocessingml.document">>
TXT == <<"text", "plain">>
CSV == <<"text", "csv">>
XLS == <<"application", "vnd.ms-excel">>
XLSX == <<"application", "vnd.openxmlformats-officedocument.spreadsheetml.sheet">>
SQL == <<"application", "sql">>
ZIP == <<"application", "zip">>
RAR == <<"application", "x-rar">>

\* Mutant: the prefix is compared with the whole content type.
startswith_Equal(ct, type) == ct = <<type, "">>

\* str.startswith(type + "/")
startswith(ct, type) == ct[1] = type

ContentTypes ==
    {PDF, DOCX, TXT, CSV, XLS, XLSX, SQL, ZIP, RAR}
    \cup {<<"image", "png">>, <<"image", "jpeg">>, <<"audio", "mpeg">>, <<"video", "mp4">>}
    \cup {<<"application", "json">>, <<"text", "html">>}

\* Characters of file texts, and a byte that is no valid UTF-8.
FileChars == {"a", " ", "\n"}
InvalidByte == "\\xff"
\* page.extract_text() returning None (no text on the page)
None == <<"None">>

FileTexts == SeqsUpTo(FileChars, MaxPartLen)
FileBytes == SeqsUpTo(FileChars \cup {InvalidByte}, MaxBytes)

\* What a file holds, as its reader sees it.  `corrupt`: the reader raises.
FilesFor(ct) ==
    IF ct = PDF
    THEN [corrupt : BOOLEAN, pages : SeqsUpTo(FileTexts \cup {None}, MaxParts)]
    ELSE IF ct = DOCX
    THEN [corrupt : BOOLEAN, paragraphs : SeqsUpTo(FileTexts, MaxParts)]
    ELSE IF ct \in {XLS, XLSX}
    THEN [corrupt : BOOLEAN, cells : SeqsUpTo(FileTexts, MaxParts)]
    ELSE IF ct = ZIP
    THEN [corrupt : BOOLEAN,
          entries : SeqsUpTo([txt : BOOLEAN, content : FileTexts], MaxParts)]
    ELSE [corrupt : {FALSE}, bytes : FileBytes]

\* bytes.decode("utf-8", errors="ignore"): invalid bytes are dropped
decode(bytes) == SelectSeq(bytes, LAMBDA c : c # InvalidByte)

\* "".join / sep.join over a sequence of texts
RECURSIVE join(_, _)
join(sep, parts) ==
    IF parts = <<>> THEN <<>>
    ELSE IF Len(parts) = 1 THEN parts[1]
    ELSE parts[1] \o sep \o join(sep, Tail(parts))

\* text += page.extract_text() or ""
RECURSIVE pdf_text(_)
pdf_text(pages) ==
    IF pages = <<>> THEN <<>>
    ELSE (IF pages[1] = None THEN <<>> ELSE pages[1]) \o pdf_text(Tail(pages))

\* text += f.read().decode(...) + "\n" for the entries named *.txt
RECURSIVE zip_text(_)
zip_text(entries) ==
    IF entries = <<>> THEN <<>>
    ELSE (IF entries[1].txt THEN entries[1].content \o <<"\n">> ELSE <<>>)
         \o zip_text(Tail(entries))

\* DataFrame.to_string() of a one-column sheet: the first cell is the
\* column's name, the others its rows.  The header line is indented by the
\* width of the index column, each row starts with its index; an empty
\* cell reads NaN, an empty name "Unnamed: 0", and a sheet without rows is
\* "Empty DataFrame ...".  (Padding of cells to the column's width is not
\* modelled.)
Digits == <<"0", "1", "2", "3", "4", "5", "6", "7", "8", "9">>

cell_text(c) == IF c = <<>> THEN <<"N", "a", "N">> ELSE c

column_name(c) ==
    IF c = <<>> THEN <<"U", "n", "n", "a", "m", "e", "d", ":", " ", "0">> ELSE c

RECURSIVE rows_text(_, _)
rows_text(cells, i) ==
    IF cells = <<>> THEN <<>>
    ELSE <<"\n", Digits[i + 1], " ", " ">> \o cell_text(cells[1])
         \o rows_text(Tail(cells), i + 1)

to_string(cells) ==
    IF Len(cells) <= 1
    THEN <<"E", "m", "p", "t", "y", " ", "D", "a", "t", "a", "F", "r", "a", "m", "e", "\n",
           "C", "o", "l", "u", "m", "n", "s", ":", " ", "[">>
         \o (IF cells = <<>> THEN <<>> ELSE column_name(cells[1]))
         \o <<"]", "\n", "I", "n", "d", "e", "x", ":", " ", "[", "]">>
    ELSE <<" ", " ", " ">> \o column_name(cells[1]) \o rows_text(Tail(cells), 0)

ReturnedText(t) == [kind |-> "text", text |-> t]
RaisedError(cls, msg) == [kind |-> "error", cls |-> cls, msg |-> msg]

\* The try block of extract_text: the if/elif chain over the content type
extract_text_body(file_content, content_type) ==
    IF content_type = PDF
    THEN IF file_content.corrupt THEN RaisedError("Exception", <<"reader failed">>)
         ELSE ReturnedText(strip(pdf_text(file_content.pages)))
    ELSE IF content_type = DOCX
    THEN IF file_content.corrupt THEN RaisedError("Exception", <<"reader failed">>)
         ELSE ReturnedText(strip(join(<<"\n">>, file_content.paragraphs)))
    ELSE IF content_type \in {TXT, CSV}
    THEN ReturnedText(strip(decode(file_content.bytes)))
    ELSE IF content_type \in {XLS, XLSX}
    THEN IF file_content.corrupt THEN RaisedError("Exception", <<"reader failed">>)
         ELSE ReturnedText(to_string(file_content.cells))
    ELSE IF content_type = SQL
    THEN ReturnedText(strip(decode(file_content.bytes)))
    ELSE IF content_type = ZIP
    THEN IF file_content.corrupt THEN RaisedError("Exception", <<"reader failed">>)
         ELSE ReturnedText(strip(zip_text(file_content.entries)))
    ELSE IF content_type = RAR
    THEN ReturnedText(<<>>)
    ELSE IF startswith(content_type, "image")
    THEN RaisedError("DocumentProcessingError", <<"Image OCR not supported by current models">>)
    ELSE IF startswith(content_type, "audio") \/ startswith(content_type, "video")
    THEN RaisedError("DocumentProcessingError",
                     <<"Audio/Video transcription not supported by current models">>)
    ELSE RaisedError("DocumentProcessingError", <<"Unsupported file type", content_type>>)

\* extract_text: the try block, and the except clause that wraps whatever
\* it raised in DocumentProcessingError("Failed to extract text: ...")
extract_text(file_content, content_type) ==
    LET r == extract_text_body(file_content, content_type)
    IN  IF r.kind = "error"
        THEN RaisedError("DocumentProcessingError", <<"Failed to extract text">> \o r.msg)
        ELSE r

VARIABLES content_type, file_content, extracted, epc

extVars == <<content_type, file_content, extracted, epc>>

ExtIdle ==
    /\ content_type = TXT
    /\ file_content = [corrupt |-> FALSE, bytes |-> <<>>]
    /\ extracted = ReturnedText(<<>>)
    /\ epc = "off"

VARIABLES original, improved, suggestions, dpc

diffVars == <<original, improved, suggestions, dpc>>

\* ---------------------------------------------------------- document store
\* current_user.id, file.filename and improved texts of the requests
UserIds == {1, 2}
Filenames == {"a.txt", "b.txt"}
ImprovedTexts == {<<"a">>, <<"b">>}

\* A row of the documents table: Document(user_id=, filename=, content=)
Document(user_id, filename, content) ==
    [user_id |-> user_id, filename |-> filename, content |-> content]

\* db.add(row); db.commit() on a table kept in insertion order
db_add(rows, row) == Append(rows, row)

\* The positions of the rows filter(Document.user_id == .., Document.filename == ..) keeps
Matching(rows, user_id, filename) ==
    {i \in 1 .. Len(rows) : rows[i].user_id = user_id /\ rows[i].filename = filename}

\* The content types of SUPPORTED_FILE_TYPES
SupportedMimeTypes == {PDF, DOCX, TXT, CSV, XLS, XLSX, SQL, ZIP, RAR}

\* The 10MB limit of upload_file
MaxFileSize == 10 * 1024 * 1024
FileSizes == {0, MaxFileSize, MaxFileSize + 1}

\* What process_document(file.filename, content, file.content_type) ends
\* with for upload_file: it raises (as the one-parameter process_document
\* of document_processor.py does for a call with three arguments), or it
\* returns the triple the handler unpacks, with an improved text.
ProcessOutcomes ==
    {[ok |-> FALSE, improved_text |-> <<>>]}
    \cup {[ok |-> TRUE, improved_text |-> t] : t \in ImprovedTexts}

\* upload_file: the rows after the request, and the status of its response.
\* After the commit the handler builds DocumentResponse without the
\* required filename, so also a stored upload is answered with an error.
upload_file(rows, user_id, filename, ct, size, processed) ==
    IF ct \notin SupportedMimeTypes THEN [rows |-> rows, status |-> 400, stored |-> FALSE]
    ELSE IF size > MaxFileSize THEN [rows |-> rows, status |-> 400, stored |-> FALSE]
    ELSE IF ~processed.ok THEN [rows |-> rows, status |-> 500, stored |-> FALSE]
    ELSE [rows |-> db_add(rows, Document(user_id, filename, processed.improved_text)),
          status |-> 500, stored |-> TRUE]

\* save_document: update the first matching row, or insert one
save_document(rows, user_id, filename, improvedText) ==
    LET found == Matching(rows, user_id, filename)
    IN  IF found = {}
        THEN db_add(rows, Document(user_id, filename, improvedText))
        ELSE [rows EXCEPT ![Min(found)].content = improvedText]

NotPersisted == <<"none">>

VARIABLES
    documents,      \* the rows of the documents table, in insertion order
    lastPersisted,  \* per (user_id, filename): the text last persisted for it
    requests,       \* upload and save requests handled so far
    status          \* HTTP status of the last response (0: none yet)

storeVars == <<documents, lastPersisted, requests, status>>

StoreIdle ==
    /\ documents = <<>>
    /\ lastPersisted = [k \in UserIds \X Filenames |-> NotPersisted]
    /\ requests = 0
    /\ status = 0

vars == <<orchVars, diffVars, extVars, storeVars>>

DiffIdle ==
    /\ original = <<>>
    /\ improved = <<>>
    /\ suggestions = <<>>
    /\ dpc = "off"

\* ai_model = AIDocumentModel()
Construct ==
    /\ ctor = "new"
    /\ \E av \in [Names -> BOOLEAN] :
          LET r == AIDocumentModel_init(av)
          IN  /\ avail' = av
              /\ ctor' = IF r.ok THEN "ok" ELSE "failed"
              /\ models' = r.models
              /\ error' = r.error
    /\ UNCHANGED <<isStr, text, want, pc, idx, calls, modelCalls, outcome, replies,
                   backendResult, result, active_model, hung>>
    /\ UNCHANGED <<diffVars, extVars, storeVars>>

\* improve_text(text, suggestions) up to the loop: the isinstance check
StartImprove ==
    /\ ctor = "ok"
    /\ pc = "idle"
    /\ \E t \in StringsUpTo(MaxTextLen), w \in BOOLEAN, s \in BOOLEAN :
          /\ isStr' = s
          /\ text' = IF s THEN t ELSE <<>>
          /\ want' = w
          /\ IF s
             THEN pc' = "loop" /\ idx' = 1 /\ error' = error
             ELSE pc' = "rejected" /\ idx' = idx /\ error' = "Text must be a string"
    /\ UNCHANGED <<avail, ctor, models, calls, modelCalls, outcome, replies,
                   backendResult, result, active_model, hung>>
    /\ UNCHANGED <<diffVars, extVars, storeVars>>

\* Mutant: a result without suggestions does not end the loop.
ReturnResult_UnlessEmpty(r) ==
    /\ backendResult' = r
    /\ result' = ResultDict(r)
    /\ active_model' = <<Kind(models[idx]), Name(models[idx])>>
    /\ outcome' = [outcome EXCEPT ![Name(models[idx])] = "returned"]
    /\ IF ~Truthy(r.suggestions) /\ idx < Len(models)
       THEN pc' = "loop" /\ idx' = idx + 1
       ELSE pc' = "returned" /\ idx' = idx
    /\ UNCHANGED error

\* The success path of the loop body: record the backend, return its result.
ReturnResult(r) ==
    /\ backendResult' = r
    /\ result' = ResultDict(r)
    /\ active_model' = <<Kind(models[idx]), Name(models[idx])>>
    /\ outcome' = [outcome EXCEPT ![Name(models[idx])] = "returned"]
    /\ pc' = "returned"
    /\ UNCHANGED <<idx, error>>

\* Mutant: the first failure ends the call (raise instead of continue).
HandleRaise_FailFast(e) ==
    /\ outcome' = [outcome EXCEPT ![Name(models[idx])] = "raised"]
    /\ idx' = idx /\ pc' = "failed" /\ error' = "All AI models failed to process text"
    /\ UNCHANGED <<backendResult, result, active_model>>

\* Mutant: after a failure the same backend's model is awaited again.
HandleRaise_RetrySame(e) ==
    /\ outcome' = [outcome EXCEPT ![Name(models[idx])] = "raised"]
    /\ idx' = idx /\ pc' = "awaiting" /\ error' = error
    /\ UNCHANGED <<backendResult, result, active_model>>

\* The except clauses: go on with the next backend; past the last one,
\* raise AIModelError("All AI models failed to process text").
HandleRaise(e) ==
    /\ outcome' = [outcome EXCEPT ![Name(models[idx])] = "raised"]
    /\ IF idx < Len(models)
       THEN idx' = idx + 1 /\ pc' = "loop" /\ error' = error
       ELSE idx' = idx /\ pc' = "failed" /\ error' = "All AI models failed to process text"
    /\ UNCHANGED <<backendResult, result, active_model>>

\* An error no except clause matches leaves improve_text as it is.
Propagate(e) ==
    /\ outcome' = [outcome EXCEPT ![Name(models[idx])] = "raised"]
    /\ pc' = "propagated"
    /\ error' = e.cause
    /\ UNCHANGED <<idx, backendResult, result, active_model>>

\* result = await model.improve_text(text, suggestions): the call, up to the
\* backend's await of its model (or its return, when the guard holds)
Invoke ==
    /\ pc = "loop"
    /\ calls' = [calls EXCEPT ![Name(models[idx])] = @ + 1]
    /\ IF EmptyTextGuard(text)
       THEN /\ ReturnResult(EmptyTextResult(text))
            /\ UNCHANGED modelCalls
       ELSE /\ modelCalls' = [modelCalls EXCEPT ![Name(models[idx])] = @ + 1]
            /\ pc' = "awaiting"
            /\ UNCHANGED <<idx, outcome, backendResult, result, error, active_model>>
    /\ UNCHANGED <<avail, ctor, models, isStr, text, want, replies, hung>>
    /\ UNCHANGED <<diffVars, extVars, storeVars>>

\* The backend's outcome for a model reply
BackendOutcome(desc, rep) ==
    IF Kind(desc) = "ollama"
    THEN OllamaModel_improve_text(text, want, rep)
    ELSE T5Model_improve_text(text, want, rep)

\* The awaited model call completes; the backend returns or raises, and the
\* orchestrator returns or goes on.
BackendReply ==
    /\ pc = "awaiting"
    /\ ~hung
    /\ \E rep \in (IF Kind(models[idx]) = "ollama" THEN OllamaReplies ELSE T5Replies) :
          LET o == BackendOutcome(models[idx], rep)
          IN  /\ replies' = [replies EXCEPT ![Name(models[idx])] = rep]
              /\ IF o.ok THEN ReturnResult(o.value)
                 ELSE IF Caught(o) THEN HandleRaise(o)
                 ELSE Propagate(o)
    /\ UNCHANGED <<avail, ctor, models, isStr, text, want, calls, modelCalls, hung>>
    /\ UNCHANGED <<diffVars, extVars, storeVars>>

\* The awaited model call never completes (no timeout is set on it).
BackendHang ==
    /\ pc = "awaiting"
    /\ ~hung
    /\ hung' = TRUE
    /\ UNCHANGED <<avail, ctor, models, isStr, text, want, pc, idx, calls, modelCalls,
                   outcome, replies, backendResult, result, error, active_model>>
    /\ UNCHANGED <<diffVars, extVars, storeVars>>

Init == OrchInit /\ DiffIdle /\ ExtIdle /\ StoreIdle

Next == Construct \/ StartImprove \/ Invoke \/ BackendReply \/ BackendHang

Spec == Init /\ [][Next]_vars

\* The event loop resumes improve_text whenever it can go on, and a model
\* call that has not hung completes.
LiveSpec == Spec /\ WF_vars(Invoke) /\ WF_vars(BackendReply)

\* ------------------------------------------------ orchestrator properties
\* A text of whitespace only (the empty text included)
Blank(t) == \A i \in 1 .. Len(t) : t[i] \in Whitespace
Finished == pc \in {"returned", "failed"}
Listed == {Name(models[i]) : i \in 1 .. Len(models)}
OllamaNames == {PrimaryName, SecondaryName}

\* C1: for a non-blank text, improve_text returns the result of the first
\* backend in list order that does not raise; every backend before it was
\* invoked exactly once and raised, no backend after it was invoked, also
\* when the returned suggestion list is empty.
C1_FirstSuccessWins ==
    /\ \A n \in Names : calls[n] <= 1
    /\ (pc = "returned" /\ ~Blank(text)) =>
          LET o == BackendOutcome(models[idx], replies[Name(models[idx])])
          IN  /\ o.ok
              /\ result = [improved_text |-> o.value.improved_text,
                           suggestions |-> o.value.suggestions]
              /\ calls[Name(models[idx])] = 1
              /\ \A j \in 1 .. idx - 1 :
                    /\ calls[Name(models[j])] = 1
                    /\ outcome[Name(models[j])] = "raised"
                    /\ ~BackendOutcome(models[j], replies[Name(models[j])]).ok
              /\ \A j \in idx + 1 .. Len(models) :
                    /\ calls[Name(models[j])] = 0
                    /\ outcome[Name(models[j])] = "none"

\* C1 witness: the first of three backends raised, the second returned
\* without suggestions, the third was never invoked.
C1_Witness ==
    /\ pc = "returned" /\ ~Blank(text) /\ want
    /\ Len(models) = 3 /\ idx = 2
    /\ result.suggestions = <<>>
    /\ calls[T5Name] = 0

\* C2: on a string input improve_text raises "All AI models failed to
\* process text" exactly when every backend of the list raised; no single
\* backend's error reaches the caller, whatever its cause.
C2_AllFailedIffAllRaise ==
    isStr =>
        /\ (pc = "failed") <=> (ctor = "ok" /\ \A n \in Listed : outcome[n] = "raised")
        /\ (pc = "failed") => error = "All AI models failed to process text"
        /\ (pc = "returned") => error = ""
        /\ pc # "propagated"

\* C2 witness: three backends, each raised for a different cause.
C2_Witness ==
    /\ pc = "failed" /\ Len(models) = 3
    /\ replies[PrimaryName].kind = "not_json"
    /\ replies[SecondaryName].kind = "chat_error"
    /\ replies[T5Name].kind = "generate_error"

\* C3 as stated: for a blank text improve_text returns the text itself and
\* no suggestions, and no backend's improve_text was invoked.
C3_NoBackendInvoked ==
    (pc = "returned" /\ Blank(text)) =>
        /\ result = [improved_text |-> text, suggestions |-> <<>>]
        /\ \A n \in Names : calls[n] = 0

\* C3 amended: for a blank text improve_text returns the text itself and no
\* suggestions from the first backend of the list, whose improve_text is
\* invoked once and returns at its guard; no other backend is invoked and
\* no model (ollama.chat, model.generate) is called.
C3_FirstBackendShortCircuits ==
    (isStr /\ Blank(text) /\ pc \notin {"idle", "loop"}) =>
        /\ pc = "returned"
        /\ result = [improved_text |-> text, suggestions |-> <<>>]
        /\ idx = 1
        /\ \A n \in Names : calls[n] = (IF n = Name(models[1]) THEN 1 ELSE 0)
        /\ \A n \in Names : modelCalls[n] = 0

\* C3 witness: a whitespace-only text returned with two or more backends listed.
C3_Witness ==
    /\ pc = "returned" /\ text = <<" ">> /\ want
    /\ Len(models) >= 2

\* C4 as stated: when the T5 backend serves a request that asks for
\* suggestions, the suggestions returned are those the diff derives from
\* the text and the improved text.
C4_T5SuggestionsFromDiff ==
    (pc = "returned" /\ Kind(models[idx]) = "t5" /\ want /\ ~Blank(text)) =>
        result.suggestions = generate_suggestions(text, result.improved_text)

\* A reply json.loads rejects, or a JSON value without improved_text
Malformed(rep) ==
    \/ rep.kind \in {"not_json", "non_object"}
    \/ rep.kind = "object" /\ "improved_text" \notin rep.fields

\* C5 as stated: OllamaModel.improve_text raises for every reply that is
\* not valid JSON or lacks improved_text.
C5_MalformedReplyRaises ==
    \A n \in OllamaNames : Malformed(replies[n]) => outcome[n] = "raised"

\* C5 amended: OllamaModel.improve_text raises when the reply is not valid
\* JSON or is JSON that is not an object; for a JSON object without
\* improved_text it returns, with the request text as improved_text.
C5_MissingFieldDefaults ==
    \A n \in OllamaNames :
        /\ replies[n].kind \in {"chat_error", "not_json", "non_object"} => outcome[n] = "raised"
        /\ (replies[n].kind = "object" /\ "improved_text" \notin replies[n].fields) =>
              /\ outcome[n] = "returned"
              /\ pc = "returned"
              /\ result.improved_text = text
              /\ result.suggestions =
                    (IF want /\ "suggestions" \in replies[n].fields
                     THEN replies[n].suggestions ELSE <<>>)

\* C5 witness: a JSON object without improved_text was answered with the
\* request text and the reply's suggestions.
C5_Witness ==
    /\ pc = "returned"
    /\ replies[PrimaryName].kind = "object"
    /\ replies[PrimaryName].fields = {"suggestions"}
    /\ result.improved_text = text /\ Truthy(result.suggestions)

\* The backends that initialized, in priority order
PriorityOrder(av) ==
    (IF av[PrimaryName] THEN <<<<"ollama", PrimaryName>>>> ELSE <<>>)
    \o (IF av[SecondaryName] THEN <<<<"ollama", SecondaryName>>>> ELSE <<>>)
    \o (IF av[T5Name] THEN <<<<"t5", T5Name>>>> ELSE <<>>)

\* C6 as stated: construction succeeds exactly when at least one backend
\* initializes, and then lists the initialized backends, at least one, in
\* the order primary, secondary, T5.
C6_ConstructionBestEffort ==
    ctor # "new" =>
        /\ (ctor = "ok") <=> (\E n \in Names : avail[n])
        /\ (ctor = "ok") => (Truthy(models) /\ models = PriorityOrder(avail))

\* C7 as stated: every call of improve_text ends, returning or raising the
\* all-failed error, even when a model call hangs.
C7_AlwaysEnds == (pc = "loop") ~> Finished

\* C7 amended: a backend that raises is followed by the next one, and a
\* call of improve_text ends unless a model call hangs; there is no
\* timeout, so once a model call hangs improve_text stays at its await.
C7_EndsUnlessHung ==
    /\ (pc = "loop") ~> (Finished \/ hung)
    /\ [][hung => (hung' /\ pc' = "awaiting")]_vars
    /\ [](hung => pc = "awaiting")

\* C7 witness: the first backend raised and the call hangs in the second.
C7_Witness == hung /\ idx = 2 /\ outcome[Name(models[1])] = "raised"

\* ------------------------------------------------- the diff on its own
\* The pair of the repository's test: "This is teh document." and its correction
TehDocument ==
    <<"T", "h", "i", "s", " ", "i", "s", " ", "t", "e", "h", " ",
      "d", "o", "c", "u", "m", "e", "n", "t", ".">>
TheDocument ==
    <<"T", "h", "i", "s", " ", "i", "s", " ", "t", "h", "e", " ",
      "d", "o", "c", "u", "m", "e", "n", "t", ".">>

DiffInputs ==
    (StringsUpTo(MaxLen) \X StringsUpTo(MaxLen)) \cup {<<TehDocument, TheDocument>>}

DiffInit ==
    /\ OrchInit /\ ExtIdle /\ StoreIdle
    /\ \E pair \in DiffInputs : original = pair[1] /\ improved = pair[2]
    /\ suggestions = <<>>
    /\ dpc = "input"

GenerateSuggestions ==
    /\ dpc = "input"
    /\ suggestions' = generate_suggestions(original, improved)
    /\ dpc' = "done"
    /\ UNCHANGED <<original, improved>>
    /\ UNCHANGED <<orchVars, extVars, storeVars>>

DiffNext == GenerateSuggestions

DiffSpec == DiffInit /\ [][DiffNext]_vars

\* C8 as stated: "This is teh document." against "This is the document."
\* gives exactly one suggestion, "teh" -> "the", whose reason names a typo
\* or word choice.
C8_TehBecomesThe ==
    (dpc = "done" /\ original = TehDocument /\ improved = TheDocument) =>
        /\ Len(suggestions) = 1
        /\ suggestions[1].original_text = <<"t", "e", "h">>
        /\ suggestions[1].improved_text = <<"t", "h", "e">>
        /\ suggestions[1].reason = "Corrected potential typo or improved word choice"

\* The opcodes that are not "equal"
Edits(a, b) == SelectSeq(get_opcodes(a, b), LAMBDA op : op[1] # "equal")

\* C9: the ids of the suggestions are 1, 2, ..., n in this order, opcodes
\* skipped as blank using up none, and a later suggestion starts at a
\* larger offset of the original text than an earlier one.
C9_SequentialIds ==
    dpc = "done" =>
        \A k \in 1 .. Len(suggestions) :
            /\ suggestions[k].id = k
            /\ k > 1 => suggestions[k - 1].start < suggestions[k].start

\* C9 witness: two suggestions were emitted and a blank edit was skipped.
C9_Witness ==
    /\ dpc = "done"
    /\ Len(suggestions) = 2
    /\ Len(Edits(original, improved)) > 2

\* The non-equal opcodes of which the original segment or the replacement
\* segment is not blank
Emitting(a, b) ==
    SelectSeq(Edits(a, b),
              LAMBDA op : ~Blank(Slice(a, op[2], op[3])) \/ ~Blank(Slice(b, op[4], op[5])))

\* C13: there is exactly one suggestion per non-equal opcode with a
\* non-blank original or replacement segment, in the order of the opcodes,
\* and none for any other opcode; each has 0 <= start <= end <= len(original),
\* original_text = original[start:end], improved_text = the replacement
\* segment of its opcode (empty for a delete, original_text empty for an
\* insert) and status "pending".
C13_OneSuggestionPerEdit ==
    dpc = "done" =>
        LET ops == Emitting(original, improved)
        IN  /\ Len(suggestions) = Len(ops)
            /\ \A k \in 1 .. Len(ops) :
                  LET s  == suggestions[k]
                      op == ops[k]
                  IN  /\ s.start = op[2] /\ s.end = op[3]
                      /\ 0 <= s.start /\ s.start <= s.end /\ s.end <= Len(original)
                      /\ s.original_text = Slice(original, s.start, s.end)
                      /\ s.improved_text = Slice(improved, op[4], op[5])
                      /\ op[1] = "delete" => s.improved_text = <<>>
                      /\ op[1] = "insert" => s.original_text = <<>>
                      /\ s.status = "pending"

\* C13 witness: an insert and a delete were emitted as suggestions and a
\* blank edit was skipped.
C13_Witness ==
    /\ dpc = "done"
    /\ \E k \in 1 .. Len(suggestions) :
          suggestions[k].original_text = <<>> /\ suggestions[k].improved_text # <<>>
    /\ \E k \in 1 .. Len(suggestions) :
          suggestions[k].improved_text = <<>> /\ suggestions[k].original_text # <<>>
    /\ Len(Edits(original, improved)) > Len(suggestions)

\* The reason the rule table gives an opcode, from its tag and its spans
RuleTable(op, typo, style, removed, added) ==
    IF op[1] = "replace"
    THEN IF op[3] - op[2] = op[5] - op[4] THEN typo ELSE style
    ELSE IF op[1] = "delete" THEN removed
    ELSE added

\* C14 as stated: the reasons are those of the rule table, spelled in
\* lower case as the table quotes them.
C14_LowercaseReasons ==
    dpc = "done" =>
        LET ops == Emitting(original, improved)
        IN  \A k \in 1 .. Len(suggestions) :
                k <= Len(ops) =>
                    suggestions[k].reason =
                        RuleTable(ops[k], "corrected potential typo or improved word choice",
                                  "improved clarity or style",
                                  "removed redundant or unnecessary text",
                                  "added text for clarity or completeness")

\* C14 amended: the reason of every suggestion is the one the rule table
\* gives its opcode (replace of equal lengths, replace of differing lengths,
\* delete, insert), each beginning with a capital letter; no suggestion
\* carries "General improvement" or any other reason.
C14_ReasonByRuleTable ==
    dpc = "done" =>
        LET ops == Emitting(original, improved)
        IN  \A k \in 1 .. Len(suggestions) :
                /\ k <= Len(ops)
                /\ suggestions[k].reason =
                        RuleTable(ops[k], "Corrected potential typo or improved word choice",
                                  "Improved clarity or style",
                                  "Removed redundant or unnecessary text",
                                  "Added text for clarity or completeness")

\* C14 witness: one run gave a replace of equal lengths, a replace of
\* differing lengths or a delete, and an insert.
C14_Witness ==
    /\ dpc = "done"
    /\ \E k \in 1 .. Len(suggestions) :
          suggestions[k].reason = "Corrected potential typo or improved word choice"
    /\ \E k \in 1 .. Len(suggestions) :
          suggestions[k].reason \in {"Improved clarity or style",
                                     "Removed redundant or unnecessary text"}
    /\ \E k \in 1 .. Len(suggestions) :
          suggestions[k].reason = "Added text for clarity or completeness"

\* -------------------------------------------- the extractor on its own
ExtractInit ==
    /\ OrchInit /\ DiffIdle /\ StoreIdle
    /\ content_type \in ContentTypes
    /\ file_content \in FilesFor(content_type)
    /\ extracted = ReturnedText(<<>>)
    /\ epc = "input"

\* original_text = await extract_text(file_content, content_type, file.filename)
ExtractText ==
    /\ epc = "input"
    /\ extracted' = extract_text(file_content, content_type)
    /\ epc' = "done"
    /\ UNCHANGED <<content_type, file_content>>
    /\ UNCHANGED <<orchVars, diffVars, storeVars>>

ExtractNext == ExtractText

ExtractSpec == ExtractInit /\ [][ExtractNext]_vars

\* The type of a content type: "image" of image/png
Major(ct) == ct[1]

NoCapability(ct) == ct = RAR \/ Major(ct) \in {"image", "audio", "video"}

Registered(ct) == ct \in {PDF, DOCX, TXT, CSV, XLS, XLSX, SQL, ZIP} \/ NoCapability(ct)

\* The error extract_text raises for a content type no branch handles
UnsupportedFormatError(ct) ==
    RaisedError("DocumentProcessingError",
                <<"Failed to extract text", "Unsupported file type", ct>>)

\* C10 as stated: for rar, image, audio and video extract_text raises an
\* error of another kind than the one for an unregistered content type, and
\* returns no text.
C10_UnsupportedOperation ==
    (epc = "done" /\ NoCapability(content_type)) =>
        /\ extracted.kind = "error"
        /\ extracted.cls # UnsupportedFormatError(content_type).cls

\* C10 amended: for image, audio and video extract_text returns no text and
\* raises DocumentProcessingError, the class it also raises for an
\* unregistered content type, with a message of its own ("Image OCR not
\* supported ...", "Audio/Video transcription not supported ...") where an
\* unregistered type gets "Unsupported file type: <type>"; for
\* application/x-rar it returns the empty text and raises nothing.
C10_UnsupportedByMessage ==
    epc = "done" =>
        /\ Major(content_type) = "image" =>
              extracted = RaisedError("DocumentProcessingError",
                  <<"Failed to extract text", "Image OCR not supported by current models">>)
        /\ Major(content_type) \in {"audio", "video"} =>
              extracted = RaisedError("DocumentProcessingError",
                  <<"Failed to extract text",
                    "Audio/Video transcription not supported by current models">>)
        /\ content_type = RAR => extracted = ReturnedText(<<>>)
        /\ ~Registered(content_type) => extracted = UnsupportedFormatError(content_type)
        /\ (NoCapability(content_type) /\ content_type # RAR) =>
              /\ extracted.cls = UnsupportedFormatError(content_type).cls
              /\ \A ct \in ContentTypes : extracted.msg # UnsupportedFormatError(ct).msg

\* C10 witness: an image was refused.
C10_Witness ==
    /\ epc = "done" /\ content_type = <<"image", "png">>
    /\ extracted.kind = "error" /\ Truthy(file_content.bytes)

\* The content types extract_text has a reader for
Supported == {PDF, DOCX, TXT, CSV, SQL, XLS, XLSX, ZIP}

\* A text without leading and without trailing whitespace
Trimmed(t) == t = <<>> \/ (t[1] \notin Whitespace /\ t[Len(t)] \notin Whitespace)

\* C11 as stated: for every supported content type (PDF, word-processing
\* document, plain text, CSV, SQL, spreadsheet, zip) the text extract_text
\* returns has no leading and no trailing whitespace.
C11_TrimmedOutput ==
    (epc = "done" /\ content_type \in Supported /\ extracted.kind = "text") =>
        Trimmed(extracted.text)

\* ------------------------------------------------- the store on its own
StoreInit == OrchInit /\ DiffIdle /\ ExtIdle /\ StoreIdle

\* POST /upload by an authenticated user
UploadFile ==
    /\ requests < MaxRequests
    /\ \E u \in UserIds, f \in Filenames, ct \in ContentTypes, size \in FileSizes,
          processed \in ProcessOutcomes :
          LET r == upload_file(documents, u, f, ct, size, processed)
          IN  /\ documents' = r.rows
              /\ status' = r.status
              /\ lastPersisted' =
                    IF r.stored
                    THEN [lastPersisted EXCEPT ![<<u, f>>] = processed.improved_text]
                    ELSE lastPersisted
    /\ requests' = requests + 1
    /\ UNCHANGED <<orchVars, diffVars, extVars>>

\* POST /save by an authenticated user
SaveDocument ==
    /\ requests < MaxRequests
    /\ \E u \in UserIds, f \in Filenames, t \in ImprovedTexts :
          /\ documents' = save_document(documents, u, f, t)
          /\ lastPersisted' = [lastPersisted EXCEPT ![<<u, f>>] = t]
    /\ status' = 200
    /\ requests' = requests + 1
    /\ UNCHANGED <<orchVars, diffVars, extVars>>

StoreNext == UploadFile \/ SaveDocument

StoreSpec == StoreInit /\ [][StoreNext]_vars

====
